---- MODULE Spec2Model ----
(***************************************************************************)
(* CA Finder (GPU edition): the CPU-side aggregate of src/main.js - ring   *)
(* model, weight table, bounds analysis, rule table, undo history and the  *)
(* binary state codec - together with the part of the update kernel that   *)
(* enumerates neighbour cells and indexes the rule table.                  *)
(*                                                                         *)
(* Numbers.  Weights are exact rationals in units of 1/WeightDen, ring     *)
(* weights in units of 1/2, cell inertia in units of 1/InertiaDen and a    *)
(* Math.random() result in units of 1/RandDen.  Float32/Float64 rounding   *)
(* of these quantities is not represented.                                 *)
(*                                                                         *)
(* Arrays.  JS arrays are 0-indexed; a TLA+ sequence s holds JS element i  *)
(* at s[i+1].  The Uint8Array `rules` (MAX_N_RULES bytes) is held as the   *)
(* sequence of its entries up to the last non-zero one: every entry past   *)
(* Len(rules) is zero.                                                     *)
(***************************************************************************)
EXTENDS Integers, Sequences, FiniteSets, TLC

\* ------------------------------------------------------------------------
\* Units
\* ------------------------------------------------------------------------
WeightDen == 2 * 2 * 5 * 17 * 31
InertiaDen == 4 * 255
RandDen == 2 * 5

\* ------------------------------------------------------------------------
\* Program constants
\* ------------------------------------------------------------------------
MAX_WEIGHT == (3 * WeightDen) \div 2
MIN_N_STATES == 2
MAX_N_STATES == 32
MAX_NEIGHBOR_RANGE == 12
MIN_N_RINGS == 1
MAX_N_RINGS == 8
MAX_CELLS_PER_RING == (MAX_NEIGHBOR_RANGE * 2 + 1) * (MAX_NEIGHBOR_RANGE * 2 + 1)
MAX_N_RULES == (MAX_WEIGHT * MAX_CELLS_PER_RING * MAX_N_RINGS) \div WeightDen + 1
MAX_RULESET_HISTORY == 128
STATE_VERSION == 1
WEIGHT_SCALE_DEN == WeightDen \div 170
N_WEIGHT_DISTRIBUTIONS == 4
INERTIA_STEP == InertiaDen \div 20

\* ------------------------------------------------------------------------
\* Bounds of the exploration
\* ------------------------------------------------------------------------
NSeeds == 2
MaxCommands == 3
MaxRuleCount == 16
MaxBytes == 4
MaxFrames == 4

Seeds == 0 .. (NSeeds - 1)

\* ------------------------------------------------------------------------
\* Arithmetic helpers
\* ------------------------------------------------------------------------
Min2(a, b) == IF a < b THEN a ELSE b
Max2(a, b) == IF a > b THEN a ELSE b
Abs(a) == IF a < 0 THEN 0 - a ELSE a

\* Math.floor(num / den) for den > 0
FloorDiv(num, den) == IF num >= 0 THEN num \div den ELSE 0 - ((0 - num + den - 1) \div den)

\* Math.round(num / den) for den > 0: nearest integer, halves towards +infinity
RoundDiv(num, den) == FloorDiv(2 * num + den, 2 * den)

RECURSIVE SumTo(_, _)
SumTo(f, n) == IF n = 0 THEN 0 ELSE f[n - 1] + SumTo(f, n - 1)

\* The k-th Math.random() result of a command whose random source is `seed`
Rnd(seed, k) == (7 * seed + (3 + 4 * seed) * k + (k \div 3)) % RandDen

\* Math.floor(Math.random() * n)
RndInt(seed, k, n) == (Rnd(seed, k) * n) \div RandDen

\* ------------------------------------------------------------------------
\* Rule table (Uint8Array of MAX_N_RULES bytes)
\* ------------------------------------------------------------------------
\* a table is held as its prefix up to the last non-zero entry
Trim(s) ==
    IF \A i \in 1 .. Len(s) : s[i] = 0 THEN <<>>
    ELSE SubSeq(s, 1, CHOOSE i \in 1 .. Len(s) :
                        s[i] # 0 /\ \A j \in (i + 1) .. Len(s) : s[j] = 0)

\* rules[i]
RuleAt(r, i) == IF i < Len(r) THEN r[i + 1] ELSE 0

\* rules.subarray(0, n), copied
Subarray(r, n) == [i \in 1 .. n |-> RuleAt(r, i - 1)]

\* rules.set(src, 0): writes past the end of the typed array are dropped
RulesSet(r, src) ==
    LET n == Min2(Len(src), MAX_N_RULES)
    IN Trim([i \in 1 .. Max2(n, Len(r)) |-> IF i <= n THEN src[i] ELSE r[i]])

\* ------------------------------------------------------------------------
\* Ring model
\* ------------------------------------------------------------------------
RingIdx == 0 .. (MAX_N_RINGS - 1)

\* a faulty generateRings() that forgets Math.max(inner, ...) on the outer radius
generateRingsUnclamped(nr, range) ==
    [inner |-> [i \in RingIdx |-> IF i >= nr THEN 0
                                  ELSE IF nr = 1 THEN 1
                                  ELSE Max2(1, FloorDiv(i * range, nr) + 1)],
     outer |-> [i \in RingIdx |-> IF i >= nr THEN 0
                                  ELSE IF nr = 1 THEN range
                                  ELSE FloorDiv((i + 1) * range, nr)],
     weight |-> [i \in RingIdx |-> IF i >= nr THEN 0
                                   ELSE IF nr = 1 THEN 2
                                   ELSE IF i % 2 = 0 THEN 2 ELSE 0 - 1]]

generateRings(nr, range) ==
    [inner |-> [i \in RingIdx |->
                  IF i >= nr THEN 0
                  ELSE IF nr = 1 THEN 1
                  ELSE Max2(1, FloorDiv(i * range, nr) + 1)],
     outer |-> [i \in RingIdx |->
                  IF i >= nr THEN 0
                  ELSE IF nr = 1 THEN range
                  ELSE Max2(Max2(1, FloorDiv(i * range, nr) + 1), FloorDiv((i + 1) * range, nr))],
     \* ring weights in halves: 1.0 -> 2, -0.5 -> -1
     weight |-> [i \in RingIdx |->
                  IF i >= nr THEN 0
                  ELSE IF nr = 1 THEN 2
                  ELSE IF i % 2 = 0 THEN 2 ELSE 0 - 1]]

\* countCellsInRing: the loop over -iOuter .. iOuter in both directions
CountCellsLoop(innerR, outerR) ==
    Cardinality({c \in ((0 - outerR) .. outerR) \X ((0 - outerR) .. outerR) :
        /\ ~(c[1] = 0 /\ c[2] = 0)
        /\ ~(c[1] * c[1] + c[2] * c[2] < innerR * innerR \/ c[1] * c[1] + c[2] * c[2] > outerR * outerR)})

\* its results for the radii a ring can have, computed once
CellCounts ==
    [innerR \in 0 .. MAX_NEIGHBOR_RANGE |->
        [outerR \in 0 .. MAX_NEIGHBOR_RANGE |-> CountCellsLoop(innerR, outerR)]]

\* CPU-side count of the cells of one ring
countCellsInRing(innerR, outerR) == CellCounts[innerR][outerR]

\* whether the update kernel reaches `ringSum +=` for the offset (dx, dy) of
\* one ring: none of its `continue` conditions holds
KernelSumsOver(dx, dy, innerR, outerR, vonNeumann) ==
    /\ ~(dx < 0 - outerR \/ dx > outerR)
    /\ ~(dy < 0 - outerR \/ dy > outerR)
    /\ ~(dx = 0 /\ dy = 0)
    /\ ~(dx * dx + dy * dy < innerR * innerR \/ dx * dx + dy * dy > outerR * outerR)
    /\ ~(vonNeumann /\ Abs(dx) + Abs(dy) > outerR)

\* the values of dx and of dy the kernel's loops run through
KernelOffsets == (0 - MAX_NEIGHBOR_RANGE) .. MAX_NEIGHBOR_RANGE

\* The offsets the update kernel sums over for one ring
KernelRingCells(innerR, outerR, vonNeumann) ==
    {c \in KernelOffsets \X KernelOffsets : KernelSumsOver(c[1], c[2], innerR, outerR, vonNeumann)}


\* ------------------------------------------------------------------------
\* Weight table (Float32Array of MAX_N_STATES entries), in units of 1/WeightDen
\* ------------------------------------------------------------------------
StateIdx == 0 .. (MAX_N_STATES - 1)

\* the reduce over weights.slice(0, nStates): minWeight and maxWeight
RECURSIVE MinWeightOf(_, _)
MinWeightOf(w, ns) ==
    IF ns <= 1 THEN w[1]
    ELSE IF ns > MAX_N_STATES THEN MinWeightOf(w, MAX_N_STATES)
    ELSE Min2(w[ns], MinWeightOf(w, ns - 1))

RECURSIVE MaxWeightOf(_, _)
MaxWeightOf(w, ns) ==
    IF ns <= 1 THEN w[1]
    ELSE IF ns > MAX_N_STATES THEN MaxWeightOf(w, MAX_N_STATES)
    ELSE Max2(w[ns], MaxWeightOf(w, ns - 1))

\* util.js generateFurthestSubsequentDistanceArray: the queue of index
\* intervals after the element at index i has been produced
RECURSIVE FsdQueue(_, _)
FsdQueue(length, i) ==
    IF i < 2 THEN << <<0, length - 1>> >>
    ELSE LET q == FsdQueue(length, i - 1)
             lo == q[1][1]
             hi == q[1][2]
             mid == (lo + hi + 1) \div 2
         IN Tail(q) \o << <<lo, mid>>, <<mid, hi>> >>

\* middleIndex chosen for the element at index i >= 2
FsdMiddleIndex(length, i) ==
    LET q == FsdQueue(length, i - 1)
    IN (q[1][1] + q[1][2] + 1) \div 2

\* generateFurthestSubsequentDistanceArray(length, [0, max]) with max * k / (length - 1) exact
generateFurthestSubsequentDistanceArray(length, max) ==
    [i \in 1 .. length |->
        IF i = 1 THEN 0
        ELSE IF i = 2 THEN max
        ELSE (max * FsdMiddleIndex(length, i - 1)) \div (length - 1)]

TrianglePattern == <<0, MAX_WEIGHT \div 2, MAX_WEIGHT, MAX_WEIGHT \div 2, 0>>

\* the table written by each case of updateWeights, computed once
AlternatingWeights == [i \in 1 .. MAX_N_STATES |-> ((i - 1) % 2) * MAX_WEIGHT]
FurthestDistanceWeights == generateFurthestSubsequentDistanceArray(MAX_N_STATES, MAX_WEIGHT)
TriangleWeights == [i \in 1 .. MAX_N_STATES |-> TrianglePattern[((i - 1) % 5) + 1]]
RandomWeights == [seed \in Seeds |-> [i \in 1 .. MAX_N_STATES |-> (Rnd(seed, i - 1) * MAX_WEIGHT) \div RandDen]]

\* the table written by updateWeights for distribution idx
WeightsFor(idx, seed) ==
    CASE idx = 0 -> AlternatingWeights
      [] idx = 1 -> FurthestDistanceWeights
      [] idx = 2 -> TriangleWeights
      [] OTHER -> RandomWeights[seed]

\* ------------------------------------------------------------------------
\* Bounds analysis
\* ------------------------------------------------------------------------
\* ring sums are in units of 1 / (2 * WeightDen)
SumDen == 2 * WeightDen

\* totalMaxSum of getCurrentRuleCount and pushRulesetToHistory
AbsTotalMaxSum(w, ns, nr, rin, rout, rw) ==
    LET minWeight == MinWeightOf(w, ns)
        maxWeight == MaxWeightOf(w, ns)
    IN SumTo([i \in 0 .. (nr - 1) |->
                (IF rw[i] >= 0 THEN maxWeight ELSE minWeight)
                   * countCellsInRing(rin[i], rout[i]) * Abs(rw[i])], nr)

\* nRulesNeeded of getCurrentRuleCount and pushRulesetToHistory
nRulesNeeded(w, ns, nr, rin, rout, rw, minNW) ==
    FloorDiv(AbsTotalMaxSum(w, ns, nr, rin, rout, rw), SumDen) - minNW + 1

getCurrentRuleCount(w, ns, nr, rin, rout, rw, minNW) ==
    Min2(Max2(nRulesNeeded(w, ns, nr, rin, rout, rw, minNW), 1), MAX_N_RULES)

\* totalMinSum / totalMaxSum of recalcMinNeighborWeight
TotalMinSum(w, ns, nr, rin, rout, rw) ==
    LET minWeight == MinWeightOf(w, ns)
        maxWeight == MaxWeightOf(w, ns)
    IN SumTo([i \in 0 .. (nr - 1) |->
                (IF rw[i] >= 0 THEN minWeight ELSE maxWeight)
                   * countCellsInRing(rin[i], rout[i]) * rw[i]], nr)

TotalMaxSum(w, ns, nr, rin, rout, rw) ==
    LET minWeight == MinWeightOf(w, ns)
        maxWeight == MaxWeightOf(w, ns)
    IN SumTo([i \in 0 .. (nr - 1) |->
                (IF rw[i] >= 0 THEN maxWeight ELSE minWeight)
                   * countCellsInRing(rin[i], rout[i]) * rw[i]], nr)

\* a faulty analysis that forgets that a negative ring weight swaps the roles
\* of the least and the greatest state weight
recalcWithoutSignFlip(w, ns, nr, range) ==
    LET g == generateRings(nr, range)
        cells == [i \in 0 .. (nr - 1) |-> countCellsInRing(g.inner[i], g.outer[i]) * g.weight[i]]
    IN [rings |-> g,
        minNeighborWeight |-> FloorDiv(MinWeightOf(w, ns) * SumTo(cells, nr), SumDen),
        maxNeighborWeight |-> FloorDiv(MaxWeightOf(w, ns) * SumTo(cells, nr), SumDen)]

\* recalcMinNeighborWeight: the rings it regenerates and the two floored extremes
recalcMinNeighborWeight(w, ns, nr, range) ==
    LET g == generateRings(nr, range)
    IN [rings |-> g,
        minNeighborWeight |-> FloorDiv(TotalMinSum(w, ns, nr, g.inner, g.outer, g.weight), SumDen),
        maxNeighborWeight |-> FloorDiv(TotalMaxSum(w, ns, nr, g.inner, g.outer, g.weight), SumDen)]

\* nRulesNeeded of recalcMinNeighborWeight, b being what the analysis computed
RulesNeededByBounds(b) == b.maxNeighborWeight - b.minNeighborWeight + 1

\* whether recalcMinNeighborWeight raises the warning (console.error; showError())
CapacityExceeded(b) == RulesNeededByBounds(b) > MAX_N_RULES \/ RulesNeededByBounds(b) < 1


\* ------------------------------------------------------------------------
\* Palettes (palettes.js): identifiers of three ASCII characters, as bytes
\* ------------------------------------------------------------------------
paletteIds == << <<112, 48, 48>>, <<112, 48, 49>> >>

PaletteIndexOf(id) ==
    IF \E k \in 1 .. Len(paletteIds) : paletteIds[k] = id
    THEN (CHOOSE k \in 1 .. Len(paletteIds) : paletteIds[k] = id) - 1
    ELSE 0 - 1

\* ------------------------------------------------------------------------
\* State codec
\* ------------------------------------------------------------------------
Byte(n) == n % 256

\* DataView.setInt16 / setUint16, little-endian
Int16LE(n) == << (n % 65536) % 256, (n % 65536) \div 256 >>

\* DataView.getUint16 / getInt16, little-endian
GetUint16LE(lo, hi) == lo + 256 * hi
GetInt16LE(lo, hi) == IF lo + 256 * hi >= 32768 THEN lo + 256 * hi - 65536 ELSE lo + 256 * hi

\* Math.min(255, Math.round(weights[i] * WEIGHT_SCALE))
QuantizeWeight(w) == Min2(255, RoundDiv(w, WEIGHT_SCALE_DEN))

\* buf[off] / WEIGHT_SCALE
DequantizeWeight(b) == b * WEIGHT_SCALE_DEN

\* a faulty flags byte that leaves out the shift of the selector
PackFlagsUnshifted(vn, idx) == IF vn \/ idx % 2 = 1 THEN idx - (idx % 2) + 1 ELSE idx

\* (isVonNeumann ? 1 : 0) | (nextWeightsIdx << 1)
PackFlags(vn, idx) == (IF vn THEN 1 ELSE 0) + 2 * idx

\* packState applied to an aggregate a, ruleCount being getCurrentRuleCount()
packState(a, ruleCount) ==
    << STATE_VERSION, Byte(a.nStates), Byte(a.neighborRange), Byte(a.nRings),
       Byte(RoundDiv(a.cellInertia * 255, InertiaDen)),
       Byte(PackFlags(a.isVonNeumann, a.nextWeightsIdx)) >>
    \o a.currentPaletteId
    \o Int16LE(a.minNeighborWeight)
    \o Int16LE(ruleCount)
    \o [i \in 1 .. ruleCount |-> RuleAt(a.rules, i - 1)]
    \o [i \in 1 .. a.nStates |-> IF i <= MAX_N_STATES THEN QuantizeWeight(a.weights[i]) ELSE 0]

\* unpackState: the fields it decodes before validating the length
DecodeHeader(buf) ==
    [version |-> buf[1],
     nStates |-> buf[2],
     neighborRange |-> buf[3],
     nRings |-> buf[4],
     cellInertia |-> buf[5] * (InertiaDen \div 255),
     isVonNeumann |-> (buf[6] % 2) # 0,
     nextWeightsIdx |-> (buf[6] \div 2) % 4,
     paletteId |-> <<buf[7], buf[8], buf[9]>>,
     minNeighborWeight |-> GetInt16LE(buf[10], buf[11]),
     ruleCount |-> GetUint16LE(buf[12], buf[13])]

\* whether unpackState returns false for buf
UnpackRejects(buf) ==
    \/ Len(buf) < 13
    \/ buf[1] # STATE_VERSION
    \/ Len(buf) < 13 + DecodeHeader(buf).ruleCount + DecodeHeader(buf).nStates

\* a faulty decoder that assigns the configuration scalars as it reads them,
\* before the payload length is validated
unpackCommittingEarly(a, buf) ==
    IF Len(buf) < 13 \/ buf[1] # STATE_VERSION THEN [ok |-> FALSE, ruleCount |-> 0, agg |-> a]
    ELSE LET h == DecodeHeader(buf)
             early == [a EXCEPT !.nStates = h.nStates, !.neighborRange = h.neighborRange,
                                !.nRings = h.nRings, !.minNeighborWeight = h.minNeighborWeight]
         IN IF Len(buf) < 13 + h.ruleCount + h.nStates
            THEN [ok |-> FALSE, ruleCount |-> 0, agg |-> early]
            ELSE [ok |-> TRUE,
                  ruleCount |-> h.ruleCount,
                  agg |-> [early EXCEPT
                      !.cellInertia = h.cellInertia,
                      !.isVonNeumann = h.isVonNeumann,
                      !.nextWeightsIdx = h.nextWeightsIdx,
                      !.currentPaletteId = IF PaletteIndexOf(h.paletteId) >= 0
                                           THEN h.paletteId ELSE paletteIds[1],
                      !.paletteOrderIdx = Max2(0, PaletteIndexOf(h.paletteId)),
                      !.rules = Trim([i \in 1 .. Min2(h.ruleCount, MAX_N_RULES) |-> buf[13 + i]]),
                      !.weights = [i \in 1 .. MAX_N_STATES |->
                                     IF i <= h.nStates
                                     THEN DequantizeWeight(buf[13 + h.ruleCount + i])
                                     ELSE a.weights[i]]]]

\* unpackState(buf) applied to the aggregate a: the aggregate afterwards
\* and what it returns (ok = FALSE for `false`)
unpackState(a, buf) ==
    IF UnpackRejects(buf) THEN [ok |-> FALSE, ruleCount |-> 0, agg |-> a]
    ELSE LET h == DecodeHeader(buf)
             id == IF PaletteIndexOf(h.paletteId) >= 0 THEN h.paletteId ELSE paletteIds[1]
         IN [ok |-> TRUE,
             ruleCount |-> h.ruleCount,
             agg |-> [nStates |-> h.nStates,
                      neighborRange |-> h.neighborRange,
                      nRings |-> h.nRings,
                      cellInertia |-> h.cellInertia,
                      isVonNeumann |-> h.isVonNeumann,
                      nextWeightsIdx |-> h.nextWeightsIdx,
                      currentPaletteId |-> id,
                      paletteOrderIdx |-> PaletteIndexOf(id),
                      minNeighborWeight |-> h.minNeighborWeight,
                      rules |-> Trim([i \in 1 .. Min2(h.ruleCount, MAX_N_RULES) |-> buf[13 + i]]),
                      weights |-> [i \in 1 .. MAX_N_STATES |->
                                     IF i <= h.nStates
                                     THEN DequantizeWeight(buf[13 + h.ruleCount + i])
                                     ELSE a.weights[i]]]]

\* ------------------------------------------------------------------------
\* util.js: the text form of a byte buffer
\* ------------------------------------------------------------------------
\* B64_CHARS as character codes: A-Z a-z 0-9 - _
B64_CHARS ==
    [k \in 0 .. 63 |-> IF k < 26 THEN 65 + k
                       ELSE IF k < 52 THEN 97 + (k - 26)
                       ELSE IF k < 62 THEN 48 + (k - 52)
                       ELSE IF k = 62 THEN 45 ELSE 95]

\* B64_LOOKUP: a Uint8Array(128), zero where no character of B64_CHARS maps
B64_LOOKUP ==
    [c \in 0 .. 127 |-> IF \E k \in 0 .. 63 : B64_CHARS[k] = c
                        THEN CHOOSE k \in 0 .. 63 : B64_CHARS[k] = c
                        ELSE 0]

\* one pass of the while loop of toBase64url, entered with i = i0 < len
ToBase64Group(bytes, i0) ==
    LET len == Len(bytes)
        b0 == bytes[i0 + 1]
        i1 == i0 + 1
        b1 == IF i1 < len THEN bytes[i1 + 1] ELSE 0
        i2 == IF i1 < len THEN i1 + 1 ELSE i1
        b2 == IF i2 < len THEN bytes[i2 + 1] ELSE 0
        i == IF i2 < len THEN i2 + 1 ELSE i2
        c0 == B64_CHARS[b0 \div 4]
        c1 == B64_CHARS[(b0 % 4) * 16 + (b1 \div 16)]
        c2 == B64_CHARS[(b1 % 16) * 4 + (b2 \div 64)]
        c3 == B64_CHARS[b2 % 64]
    IN [i |-> i,
        chars |-> IF i > len + 1 THEN <<c0, c1>>
                  ELSE IF i > len THEN <<c0, c1, c2>>
                  ELSE <<c0, c1, c2, c3>>]

\* toBase64url: the text built from position i0 of bytes on
RECURSIVE ToBase64From(_, _)
ToBase64From(bytes, i0) ==
    IF i0 >= Len(bytes) THEN <<>>
    ELSE LET g == ToBase64Group(bytes, i0)
         IN IF Len(g.chars) < 4 THEN g.chars
            ELSE g.chars \o ToBase64From(bytes, g.i)

toBase64url(bytes) == ToBase64From(bytes, 0)

\* B64_LOOKUP[str.charCodeAt(i)], 0 where the bit operations meet undefined
LookupAt(str, i) == IF i < Len(str) /\ str[i + 1] \in 0 .. 127 THEN B64_LOOKUP[str[i + 1]] ELSE 0

\* fromBase64url: byte j of the result; group j \div 3 of the text yields bytes
\* 3 * (j \div 3) .. 3 * (j \div 3) + 2, each written only while j < outLen
fromBase64url(str) ==
    LET outLen == (Len(str) * 3) \div 4
    IN [n \in 1 .. outLen |->
           LET j == n - 1
               i == 4 * (j \div 3)
               c0 == LookupAt(str, i)
               c1 == LookupAt(str, i + 1)
               c2 == LookupAt(str, i + 2)
               c3 == LookupAt(str, i + 3)
           IN IF j % 3 = 0 THEN (c0 * 4 + (c1 \div 16)) % 256
              ELSE IF j % 3 = 1 THEN (c1 % 16) * 16 + (c2 \div 4)
              ELSE (c2 % 4) * 64 + c3]

\* Byte buffers presented through the location hash (after decompression)
BufValid ==
    <<1, 3, 2, 2, 204, 5, 112, 48, 49, 253, 255, 10, 0,
      1, 2, 3, 0, 0, 2, 0, 1, 0, 3,
      0, 128, 255>>
BufTruncated == SubSeq(BufValid, 1, Len(BufValid) - 1)
BufBadVersion == <<2>> \o Tail(BufValid)
BufShortHeader == SubSeq(BufValid, 1, 12)
\* minNeighborWeight 100 with a one-ring, range-1 neighbourhood
BufStaleBounds == <<1, 2, 1, 1, 128, 0, 112, 48, 48, 100, 0, 1, 0, 2, 0, 255>>
\* a well-formed buffer that declares a single state
BufOneState == <<1, 1, 1, 1, 128, 0, 112, 48, 48, 0, 0, 1, 0, 1, 255>>
\* a well-formed buffer that declares a rule count of 0
BufNoRules == <<1, 2, 1, 1, 128, 0, 112, 48, 48, 0, 0, 0, 0, 0, 255>>

Buffers ==
    {BufValid, BufTruncated, BufBadVersion, BufShortHeader, BufStaleBounds, BufOneState,
     BufNoRules}


\* a faulty exchange that forgets the temporary: rules[i] = rules[j]; rules[j] = rules[i]
SwapAtWithoutTmp(arr, i, j) == [arr EXCEPT ![i + 1] = arr[j + 1]]

\* ------------------------------------------------------------------------
\* Rule table engine
\* ------------------------------------------------------------------------
\* swap of the 0-based positions i and j of a sequence
SwapAt(arr, i, j) == [arr EXCEPT ![i + 1] = arr[j + 1], ![j + 1] = arr[i + 1]]

\* util.js shuffleArray: the iterations i = hi, hi - 1, .., lo of its loop, in
\* that order (the upper half of the range first, then the lower half); the
\* draw for position i is random number base + i of the command
RECURSIVE ShuffleFrom(_, _, _, _, _)
ShuffleFrom(arr, hi, lo, seed, base) ==
    IF hi < lo THEN arr
    ELSE IF hi = lo THEN SwapAt(arr, hi, RndInt(seed, base + hi, hi + 1))
    ELSE LET mid == (hi + lo) \div 2
             upper == ShuffleFrom(arr, hi, mid + 1, seed, base)
         IN IF Len(upper) = Len(arr) THEN ShuffleFrom(upper, mid, lo, seed, base) ELSE arr

shuffleArray(arr, seed, base) == ShuffleFrom(arr, Len(arr) - 1, 1, seed, base)

\* a faulty draw that takes the states to be numbered from 1: 1 .. nStates + 1
RandomRuleFromOne(ns, inertia, seed, k) ==
    IF Rnd(seed, k) * InertiaDen < inertia * RandDen THEN 0 ELSE RndInt(seed, k + 1, ns + 1) + 1

\* Math.random() < cellInertia ? 0 : Math.floor(Math.random() * (nStates + 1))
RandomRule(ns, inertia, seed, k) ==
    IF Rnd(seed, k) * InertiaDen < inertia * RandDen THEN 0 ELSE RndInt(seed, k + 1, ns + 1)

\* a faulty generation that seeds the value i, not i + 1, at index i
NewRulesSeededFromZero(ruleCount, ns, inertia, seed) ==
    shuffleArray([i \in 1 .. ruleCount |->
                    IF i - 1 < ns /\ inertia < InertiaDen THEN i - 1
                    ELSE RandomRule(ns, inertia, seed, 2 * (i - 1))], seed, 2 * ruleCount)

\* newRules of generateNewRuleset, shuffled
NewRules(ruleCount, ns, inertia, seed) ==
    shuffleArray([i \in 1 .. ruleCount |->
                    IF i - 1 < ns /\ inertia < InertiaDen THEN i
                    ELSE RandomRule(ns, inertia, seed, 2 * (i - 1))],
                 seed, 2 * ruleCount)

\* number of swaps / point mutations of mutateRuleset
MutationCount(ruleCount) == Max2(1, ruleCount \div 10)

\* the swap loop of mutateRuleset over the first ruleCount entries, swaps s .. n-1
RECURSIVE SwapLoop(_, _, _, _, _)
SwapLoop(arr, s, n, ruleCount, seed) ==
    IF s >= n THEN arr
    ELSE LET swapped == SwapAt(arr, RndInt(seed, 2 * s, ruleCount), RndInt(seed, 2 * s + 1, ruleCount))
         IN IF Len(swapped) = Len(arr) THEN SwapLoop(swapped, s + 1, n, ruleCount, seed) ELSE arr

\* the point-mutation loop of mutateRuleset
RECURSIVE PointLoop(_, _, _, _, _, _, _)
PointLoop(arr, s, n, ruleCount, ns, inertia, seed) ==
    IF s >= n THEN arr
    ELSE LET written == [arr EXCEPT ![RndInt(seed, 3 * s, ruleCount) + 1] =
                            Byte(RandomRule(ns, inertia, seed, 3 * s + 1))]
         IN IF Len(written) = Len(arr)
            THEN PointLoop(written, s + 1, n, ruleCount, ns, inertia, seed)
            ELSE arr

\* the first ruleCount entries after mutateRuleset(variant)
MutatedRules(r, variant, ruleCount, ns, inertia, seed) ==
    IF variant = "swap"
    THEN SwapLoop(Subarray(r, ruleCount), 0, MutationCount(ruleCount), ruleCount, seed)
    ELSE PointLoop(Subarray(r, ruleCount), 0, MutationCount(ruleCount), ruleCount, ns, inertia, seed)

\* ------------------------------------------------------------------------
\* Undo history
\* ------------------------------------------------------------------------
\* a faulty push that makes room at the wrong end: on overflow it drops the
\* entry just pushed instead of the oldest
pushDroppingNewest(h, r, needed, minNW) ==
    IF needed < 1 THEN h
    ELSE LET pushed == Append(h, [rules |-> Subarray(r, Min2(needed, MAX_N_RULES)),
                                  minNeighborWeight |-> minNW])
         IN IF Len(pushed) > MAX_RULESET_HISTORY
            THEN SubSeq(pushed, 1, MAX_RULESET_HISTORY)
            ELSE pushed

\* rulesetHistory after pushRulesetToHistory, needed being its nRulesNeeded
pushRulesetToHistory(h, r, needed, minNW) ==
    IF needed < 1 THEN h
    ELSE LET pushed == Append(h, [rules |-> Subarray(r, Min2(needed, MAX_N_RULES)),
                                  minNeighborWeight |-> minNW])
         IN IF Len(pushed) > MAX_RULESET_HISTORY THEN Tail(pushed) ELSE pushed

\* ------------------------------------------------------------------------
\* Kernel inputs (uniforms and the rule texture of updateShader)
\* ------------------------------------------------------------------------
syncShaderUniforms(w, r, ns, nr, range, vn, rin, rout, rw, minNW) ==
    [u_rules |-> r,
     u_weights |-> w,
     u_nRules |-> getCurrentRuleCount(w, ns, nr, rin, rout, rw, minNW),
     u_minNeighborWeight |-> minNW,
     u_maxNeighborRange |-> range,
     u_vonNeumann |-> IF vn THEN 1 ELSE 0,
     u_nRings |-> nr,
     u_ringInner |-> rin,
     u_ringOuter |-> rout,
     u_ringWeights |-> rw]

applyRulesToShader(sh, r, ruleCount, minNW) ==
    [sh EXCEPT !.u_rules = r, !.u_nRules = ruleCount, !.u_minNeighborWeight = minNW]

\* ------------------------------------------------------------------------
\* Update kernel: the range of totalSum over the states of the neighbours
\* ------------------------------------------------------------------------
\* totalSum is the sum over the rings of ringW times the weights of the cells
\* of the ring, so the cell at one offset contributes its weight times the sum
\* of ringW over the rings that reach it (in halves, as the ring weights)
KernelCoefficient(dx, dy, nr, rin, rout, rw, vonNeumann) ==
    SumTo([i \in 0 .. (nr - 1) |->
             IF KernelSumsOver(dx, dy, rin[i], rout[i], vonNeumann) THEN rw[i] ELSE 0], nr)

\* the least (pick = "min") or greatest (pick = "max") totalSum over all
\* assignments of states below ns to the neighbours, in units of 1 / SumDen:
\* each cell takes the weight that is extreme for the sign of its coefficient
KernelExtremeSum(pick, w, ns, nr, rin, rout, rw, vonNeumann) ==
    LET lo == MinWeightOf(w, ns)
        hi == MaxWeightOf(w, ns)
        n == 2 * MAX_NEIGHBOR_RANGE + 1
        cell(dx, dy) ==
            LET c == KernelCoefficient(dx, dy, nr, rin, rout, rw, vonNeumann)
            IN IF (c >= 0) = (pick = "min") THEN c * lo ELSE c * hi
    IN SumTo([a \in 0 .. (n - 1) |->
                SumTo([b \in 0 .. (n - 1) |->
                         cell(a - MAX_NEIGHBOR_RANGE, b - MAX_NEIGHBOR_RANGE)], n)], n)

\* ruleIndex before the kernel clamps it: int(floor(totalSum)) - u_minNeighborWeight
KernelRuleIndex(totalSum, minNW) == FloorDiv(totalSum, SumDen) - minNW


\* ------------------------------------------------------------------------
\* State
\* ------------------------------------------------------------------------
VARIABLES
    nStates,            \* let nStates
    cellInertia,        \* let cellInertia, in units of 1/InertiaDen
    isVonNeumann,       \* let isVonNeumann
    neighborRange,      \* let neighborRange
    minNeighborWeight,  \* let minNeighborWeight
    nRings,             \* let nRings
    weights,            \* const weights
    rules,              \* const rules
    currentPaletteId,   \* let currentPaletteId
    paletteOrderIdx,    \* let paletteOrderIdx
    nextWeightsIdx,     \* let nextWeightsIdx
    ringInnerRadii,     \* const ringInnerRadii
    ringOuterRadii,     \* const ringOuterRadii
    ringWeights,        \* const ringWeights
    rulesetHistory,     \* const rulesetHistory
    shader,             \* the uniforms and rule texture held by updateShader
    last,               \* the command dispatched last, what it was given and what it found
    tableEntries,       \* entries written by the generation, undo or restore behind `rules`
    isPaused,           \* let isPaused
    needsDisplayUpdate, \* let needsDisplayUpdate
    frames,             \* render() calls so far, and the kernel steps and redraws they made
    call,               \* the function applied last on its own, its arguments and its result
    commands            \* number of commands dispatched so far

ringVars == <<ringInnerRadii, ringOuterRadii, ringWeights>>
configVars == <<nStates, cellInertia, isVonNeumann, neighborRange, nRings, weights,
                currentPaletteId, paletteOrderIdx, nextWeightsIdx>>
progVars == <<configVars, minNeighborWeight, rules, ringVars, rulesetHistory, shader>>
displayVars == <<isPaused, needsDisplayUpdate, frames>>
vars == <<progVars, last, tableEntries, displayVars, call, commands>>

\* the aggregate the codec reads and writes
Aggregate ==
    [nStates |-> nStates,
     neighborRange |-> neighborRange,
     nRings |-> nRings,
     cellInertia |-> cellInertia,
     isVonNeumann |-> isVonNeumann,
     nextWeightsIdx |-> nextWeightsIdx,
     currentPaletteId |-> currentPaletteId,
     paletteOrderIdx |-> paletteOrderIdx,
     minNeighborWeight |-> minNeighborWeight,
     rules |-> rules,
     weights |-> weights]

\* getCurrentRuleCount() in the current state
CurrentRuleCount ==
    getCurrentRuleCount(weights, nStates, nRings, ringInnerRadii, ringOuterRadii, ringWeights,
                        minNeighborWeight)

\* nRulesNeeded of pushRulesetToHistory() in the current state
CurrentRulesNeeded ==
    nRulesNeeded(weights, nStates, nRings, ringInnerRadii, ringOuterRadii, ringWeights,
                 minNeighborWeight)

\* no function has been applied on its own
NoCall == [fn |-> "", args |-> <<>>, out |-> <<>>]

\* what `last` records of a command that touches neither history nor codec
Plain(cmd) == [cmd |-> cmd, out |-> "", buf |-> <<>>, priorRules |-> <<>>, priorMin |-> 0]

\* ------------------------------------------------------------------------
\* Start-up: the top-level statements of main.js for an empty location hash
\* ------------------------------------------------------------------------
InitialNStates == 8
InitialNRings == 2
InitialNeighborRange == 2
InitialCellInertia == (8 * InertiaDen) \div 10

\* setNeighborRange(2): the ruleset generated while weights is still all zero
StartRules ==
    LET w0 == [i \in 1 .. MAX_N_STATES |-> 0]
        b0 == recalcMinNeighborWeight(w0, InitialNStates, InitialNRings, InitialNeighborRange)
        n0 == getCurrentRuleCount(w0, InitialNStates, InitialNRings, b0.rings.inner,
                                  b0.rings.outer, b0.rings.weight, b0.minNeighborWeight)
    IN Trim(NewRules(n0, InitialNStates, InitialCellInertia, 0))

Init ==
    LET w == WeightsFor(0, 0)
        b == recalcMinNeighborWeight(w, InitialNStates, InitialNRings, InitialNeighborRange)
    IN /\ nStates = InitialNStates
       /\ cellInertia = InitialCellInertia
       /\ isVonNeumann = FALSE
       /\ neighborRange = InitialNeighborRange
       /\ nRings = InitialNRings
       /\ nextWeightsIdx = 0
       /\ weights = w
       /\ rules = StartRules
       /\ currentPaletteId = paletteIds[1]
       /\ paletteOrderIdx = 0
       /\ minNeighborWeight = b.minNeighborWeight
       /\ ringInnerRadii = b.rings.inner
       /\ ringOuterRadii = b.rings.outer
       /\ ringWeights = b.rings.weight
       /\ rulesetHistory = <<>>
       \* createShaders
       /\ shader = [u_rules |-> StartRules,
                    u_weights |-> w,
                    u_nRules |-> MAX_N_RULES,
                    u_minNeighborWeight |-> 0,
                    u_maxNeighborRange |-> InitialNeighborRange,
                    u_vonNeumann |-> 0,
                    u_nRings |-> InitialNRings,
                    u_ringInner |-> b.rings.inner,
                    u_ringOuter |-> b.rings.outer,
                    u_ringWeights |-> b.rings.weight]
       /\ last = Plain("start")
       /\ tableEntries = Len(StartRules)
       /\ isPaused = FALSE
       /\ needsDisplayUpdate = TRUE
       /\ frames = [ticks |-> 0, steps |-> 0, draws |-> 0]
       /\ call = NoCall
       /\ commands = 0

\* ------------------------------------------------------------------------
\* Configuration commands
\* ------------------------------------------------------------------------
\* updateUniformsKeepRuleset() once the handler has set the configuration to
\* (w, ns, nr, range, vn): recalcMinNeighborWeight(); syncShaderUniforms()
updateUniformsKeepRuleset(w, ns, nr, range, vn) ==
    \E b \in {recalcMinNeighborWeight(w, ns, nr, range)} :
       /\ ringInnerRadii' = b.rings.inner
       /\ ringOuterRadii' = b.rings.outer
       /\ ringWeights' = b.rings.weight
       /\ minNeighborWeight' = b.minNeighborWeight
       /\ shader' = syncShaderUniforms(w, rules, ns, nr, range, vn, b.rings.inner,
                                       b.rings.outer, b.rings.weight, b.minNeighborWeight)

\* a handler whose guard `next !== current` failed: only showInfo runs
NothingChanges == UNCHANGED <<minNeighborWeight, ringVars, shader>>

setRange(next, cmd) ==
    /\ neighborRange' = next
    /\ IF next # neighborRange
       THEN updateUniformsKeepRuleset(weights, nStates, nRings, next, isVonNeumann)
       ELSE NothingChanges
    /\ UNCHANGED <<nStates, cellInertia, isVonNeumann, nRings, weights, currentPaletteId,
                   paletteOrderIdx, nextWeightsIdx, rules, rulesetHistory>>
    /\ UNCHANGED <<tableEntries, needsDisplayUpdate>>
    /\ last' = Plain(cmd)

KeyQ == setRange(Min2(MAX_NEIGHBOR_RANGE, neighborRange + 1), "KeyQ")
ShiftKeyQ == setRange(Max2(neighborRange - 1, 1), "Shift+KeyQ")

setInertia(next, cmd) ==
    /\ cellInertia' = next
    /\ UNCHANGED <<nStates, isVonNeumann, neighborRange, nRings, weights, currentPaletteId,
                   paletteOrderIdx, nextWeightsIdx, minNeighborWeight, rules, ringVars,
                   rulesetHistory, shader>>
    /\ UNCHANGED <<tableEntries, needsDisplayUpdate>>
    /\ last' = Plain(cmd)

KeyE == setInertia(Min2(InertiaDen, cellInertia + INERTIA_STEP), "KeyE")
ShiftKeyE == setInertia(Max2(0, cellInertia - INERTIA_STEP), "Shift+KeyE")

setStates(next, cmd) ==
    /\ nStates' = next
    /\ IF next # nStates
       THEN updateUniformsKeepRuleset(weights, next, nRings, neighborRange, isVonNeumann)
       ELSE NothingChanges
    /\ UNCHANGED <<cellInertia, isVonNeumann, neighborRange, nRings, weights, currentPaletteId,
                   paletteOrderIdx, nextWeightsIdx, rules, rulesetHistory>>
    /\ UNCHANGED <<tableEntries, needsDisplayUpdate>>
    /\ last' = Plain(cmd)

KeyZ == setStates(Min2(MAX_N_STATES, nStates + 1), "KeyZ")
ShiftKeyZ == setStates(Max2(MIN_N_STATES, nStates - 1), "Shift+KeyZ")

KeyX ==
    /\ isVonNeumann' = ~isVonNeumann
    /\ updateUniformsKeepRuleset(weights, nStates, nRings, neighborRange, ~isVonNeumann)
    /\ UNCHANGED <<nStates, cellInertia, neighborRange, nRings, weights, currentPaletteId,
                   paletteOrderIdx, nextWeightsIdx, rules, rulesetHistory>>
    /\ UNCHANGED <<tableEntries, needsDisplayUpdate>>
    /\ last' = Plain("KeyX")

KeyA ==
    LET next == Min2(MAX_N_RINGS, nRings + 1)
        range == IF next # nRings /\ neighborRange < next * 2
                 THEN Min2(MAX_NEIGHBOR_RANGE, next * 2)
                 ELSE neighborRange
    IN /\ nRings' = next
       /\ neighborRange' = range
       /\ IF next # nRings
          THEN updateUniformsKeepRuleset(weights, nStates, next, range, isVonNeumann)
          ELSE NothingChanges
       /\ UNCHANGED <<nStates, cellInertia, isVonNeumann, weights, currentPaletteId,
                      paletteOrderIdx, nextWeightsIdx, rules, rulesetHistory>>
       /\ UNCHANGED <<tableEntries, needsDisplayUpdate>>
       /\ last' = Plain("KeyA")

ShiftKeyA ==
    LET next == Max2(MIN_N_RINGS, nRings - 1)
    IN /\ nRings' = next
       /\ IF next # nRings
          THEN updateUniformsKeepRuleset(weights, nStates, next, neighborRange, isVonNeumann)
          ELSE NothingChanges
       /\ UNCHANGED <<nStates, cellInertia, isVonNeumann, neighborRange, weights,
                      currentPaletteId, paletteOrderIdx, nextWeightsIdx, rules, rulesetHistory>>
       /\ UNCHANGED <<tableEntries, needsDisplayUpdate>>
       /\ last' = Plain("Shift+KeyA")

\* updateWeights(direction); seed feeds the Math.random() calls of distribution 3
updateWeights(direction, seed, cmd) ==
    LET idx == (N_WEIGHT_DISTRIBUTIONS + nextWeightsIdx + direction) % N_WEIGHT_DISTRIBUTIONS
        w == WeightsFor(idx, seed)
    IN /\ nextWeightsIdx' = idx
       /\ weights' = w
       /\ updateUniformsKeepRuleset(w, nStates, nRings, neighborRange, isVonNeumann)
       /\ UNCHANGED <<nStates, cellInertia, isVonNeumann, neighborRange, nRings,
                      currentPaletteId, paletteOrderIdx, rules, rulesetHistory>>
       /\ UNCHANGED <<tableEntries, needsDisplayUpdate>>
       /\ last' = Plain(cmd)

KeyW(seed) == updateWeights(1, seed, "KeyW")
ShiftKeyW(seed) == updateWeights(0 - 1, seed, "Shift+KeyW")

updateColors(direction, cmd) ==
    LET idx == (Len(paletteIds) + paletteOrderIdx + direction) % Len(paletteIds)
    IN /\ paletteOrderIdx' = idx
       /\ currentPaletteId' = paletteIds[idx + 1]
       /\ UNCHANGED <<nStates, cellInertia, isVonNeumann, neighborRange, nRings, weights,
                      nextWeightsIdx, minNeighborWeight, rules, ringVars, rulesetHistory, shader>>
       /\ needsDisplayUpdate' = TRUE
       /\ UNCHANGED tableEntries
       /\ last' = Plain(cmd)

KeyC == updateColors(1, "KeyC")
ShiftKeyC == updateColors(0 - 1, "Shift+KeyC")


\* ------------------------------------------------------------------------
\* Ruleset commands
\* ------------------------------------------------------------------------
\* what `last` records of a command that starts with pushRulesetToHistory()
Mutation(cmd, needed) ==
    [cmd |-> cmd,
     out |-> IF needed < 1 THEN "skipped" ELSE "pushed",
     buf |-> <<>>,
     priorRules |-> Subarray(rules, Min2(Max2(needed, 1), MAX_N_RULES)),
     priorMin |-> minNeighborWeight]

\* ArrowRight: pushRulesetToHistory(); generateNewRuleset()
ArrowRight(seed) ==
    \E needed \in {CurrentRulesNeeded}, ruleCount \in {CurrentRuleCount} :
    \E written \in {RulesSet(rules, NewRules(ruleCount, nStates, cellInertia, seed))} :
       /\ rulesetHistory' = pushRulesetToHistory(rulesetHistory, rules, needed, minNeighborWeight)
       /\ rules' = written
       /\ shader' = applyRulesToShader(shader, written, ruleCount, minNeighborWeight)
       /\ tableEntries' = ruleCount
       /\ UNCHANGED needsDisplayUpdate
       /\ UNCHANGED <<configVars, minNeighborWeight, ringVars>>
       /\ last' = Mutation("ArrowRight", needed)

\* mutateRuleset(variant)
mutateRuleset(variant, seed, cmd) ==
    \E needed \in {CurrentRulesNeeded}, ruleCount \in {CurrentRuleCount} :
    \E written \in {RulesSet(rules, MutatedRules(rules, variant, ruleCount, nStates,
                                                 cellInertia, seed))} :
       /\ rulesetHistory' = pushRulesetToHistory(rulesetHistory, rules, needed, minNeighborWeight)
       /\ rules' = written
       /\ shader' = applyRulesToShader(shader, written, ruleCount, minNeighborWeight)
       /\ UNCHANGED <<configVars, minNeighborWeight, ringVars, tableEntries, needsDisplayUpdate>>
       /\ last' = Mutation(cmd, needed)

ArrowUp(seed) == mutateRuleset("swap", seed, "ArrowUp")
ArrowDown(seed) == mutateRuleset("point", seed, "ArrowDown")

\* a faulty undo that clears the table before looking at the popped entry
restoreClearingFirst(h, r, minNW, sh) ==
    IF Len(h) = 0
    THEN [history |-> h, rules |-> <<>>, minNeighborWeight |-> minNW, shader |-> sh]
    ELSE LET entry == h[Len(h)]
         IN [history |-> SubSeq(h, 1, Len(h) - 1),
             rules |-> Trim(entry.rules),
             minNeighborWeight |-> entry.minNeighborWeight,
             shader |-> applyRulesToShader(sh, Trim(entry.rules), Len(entry.rules),
                                           entry.minNeighborWeight)]

\* the state restorePriorRuleset() leaves, given the history it pops from
restorePriorRuleset(h, r, minNW, sh) ==
    IF Len(h) = 0
    THEN [history |-> h, rules |-> r, minNeighborWeight |-> minNW, shader |-> sh]
    ELSE LET entry == h[Len(h)]
         IN [history |-> SubSeq(h, 1, Len(h) - 1),
             rules |-> Trim(entry.rules),
             minNeighborWeight |-> entry.minNeighborWeight,
             shader |-> applyRulesToShader(sh, Trim(entry.rules), Len(entry.rules),
                                           entry.minNeighborWeight)]

\* ArrowLeft: restorePriorRuleset()
ArrowLeft ==
    \E after \in {restorePriorRuleset(rulesetHistory, rules, minNeighborWeight, shader)} :
       /\ rulesetHistory' = after.history
       /\ rules' = after.rules
       /\ minNeighborWeight' = after.minNeighborWeight
       /\ shader' = after.shader
       /\ tableEntries' = IF Len(rulesetHistory) = 0 THEN tableEntries
                          ELSE Len(rulesetHistory[Len(rulesetHistory)].rules)
       /\ UNCHANGED <<configVars, ringVars, needsDisplayUpdate>>
       /\ last' = [cmd |-> "ArrowLeft",
                   out |-> IF Len(rulesetHistory) = 0 THEN "empty" ELSE "popped",
                   buf |-> <<>>, priorRules |-> <<>>, priorMin |-> 0]

\* ------------------------------------------------------------------------
\* Restore from the location hash
\* ------------------------------------------------------------------------
\* hashchange: tryRestoreFromHash() -> restoreStateFromUrl(hash), buf being
\* the decompressed hash
hashchange(buf) ==
    \E u \in {unpackState(Aggregate, buf)} :
    \E a \in {u.agg} :
    \E g \in {generateRings(a.nRings, a.neighborRange)} :
       /\ nStates' = a.nStates
       /\ neighborRange' = a.neighborRange
       /\ nRings' = a.nRings
       /\ cellInertia' = a.cellInertia
       /\ isVonNeumann' = a.isVonNeumann
       /\ nextWeightsIdx' = a.nextWeightsIdx
       /\ currentPaletteId' = a.currentPaletteId
       /\ paletteOrderIdx' = a.paletteOrderIdx
       /\ minNeighborWeight' = a.minNeighborWeight
       /\ rules' = a.rules
       /\ weights' = a.weights
       /\ IF u.ok
          THEN /\ ringInnerRadii' = g.inner
               /\ ringOuterRadii' = g.outer
               /\ ringWeights' = g.weight
               /\ shader' = applyRulesToShader(
                                syncShaderUniforms(a.weights, a.rules, a.nStates, a.nRings,
                                                   a.neighborRange, a.isVonNeumann, g.inner,
                                                   g.outer, g.weight, a.minNeighborWeight),
                                a.rules, u.ruleCount, a.minNeighborWeight)
          ELSE UNCHANGED <<ringVars, shader>>
       /\ tableEntries' = IF u.ok THEN u.ruleCount ELSE tableEntries
       /\ needsDisplayUpdate' = (u.ok \/ needsDisplayUpdate)
       /\ UNCHANGED rulesetHistory
       /\ last' = [cmd |-> "hashchange",
                   out |-> IF u.ok THEN "accepted" ELSE "rejected",
                   buf |-> buf, priorRules |-> <<>>, priorMin |-> 0]

\* ------------------------------------------------------------------------
\* Specifications
\* ------------------------------------------------------------------------
\* one more command, within the exploration's budget
Dispatch ==
    /\ commands < MaxCommands
    /\ commands' = commands + 1
    /\ UNCHANGED <<call, isPaused, frames>>

Next ==
    \/ Dispatch /\ KeyQ
    \/ Dispatch /\ ShiftKeyQ
    \/ Dispatch /\ KeyE
    \/ Dispatch /\ ShiftKeyE
    \/ Dispatch /\ KeyZ
    \/ Dispatch /\ ShiftKeyZ
    \/ Dispatch /\ KeyX
    \/ Dispatch /\ KeyA
    \/ Dispatch /\ ShiftKeyA
    \/ Dispatch /\ \E seed \in Seeds : KeyW(seed)
    \/ Dispatch /\ \E seed \in Seeds : ShiftKeyW(seed)
    \/ Dispatch /\ KeyC
    \/ Dispatch /\ ShiftKeyC
    \/ Dispatch /\ \E seed \in Seeds : ArrowRight(seed)
    \/ Dispatch /\ \E seed \in Seeds : ArrowUp(seed)
    \/ Dispatch /\ \E seed \in Seeds : ArrowDown(seed)
    \/ Dispatch /\ ArrowLeft
    \/ Dispatch /\ \E buf \in Buffers : hashchange(buf)

Spec == Init /\ [][Next]_vars

\* The swap-mutation and undo keys alone, without a budget: long enough to
\* fill the undo history
NextFill ==
    \/ ArrowUp(0) /\ UNCHANGED <<commands, call, isPaused, frames>>
    \/ ArrowLeft /\ UNCHANGED <<commands, call, isPaused, frames>>

SpecFill == Init /\ [][NextFill]_vars

\* ------------------------------------------------------------------------
\* Pause and the frame loop
\* ------------------------------------------------------------------------
\* Space: isPaused = !isPaused; if (!isPaused) needsDisplayUpdate = true
Space ==
    /\ isPaused' = ~isPaused
    /\ needsDisplayUpdate' = (isPaused \/ needsDisplayUpdate)
    /\ UNCHANGED <<progVars, tableEntries, frames>>
    /\ last' = Plain("Space")

\* a faulty render() that steps the kernel whether or not the simulation is paused
renderIgnoringPause(paused, needs, f) ==
    LET drawn == TRUE
    IN [needsDisplayUpdate |-> FALSE,
        frames |-> [ticks |-> f.ticks + 1,
                    steps |-> f.steps + 1,
                    draws |-> f.draws + (IF drawn THEN 1 ELSE 0)]]

\* render(): what one call leaves, updateShader and displayShader existing
render(paused, needs, f) ==
    LET stepped == ~paused
        drawn == stepped \/ needs
    IN [needsDisplayUpdate |-> IF drawn THEN FALSE ELSE stepped \/ needs,
        frames |-> [ticks |-> f.ticks + 1,
                    steps |-> f.steps + (IF stepped THEN 1 ELSE 0),
                    draws |-> f.draws + (IF drawn THEN 1 ELSE 0)]]

\* one animation frame: requestAnimationFrame calls render()
FrameTick ==
    /\ frames.ticks < MaxFrames
    /\ \E after \in {render(isPaused, needsDisplayUpdate, frames)} :
          /\ needsDisplayUpdate' = after.needsDisplayUpdate
          /\ frames' = after.frames
    /\ UNCHANGED <<progVars, last, tableEntries, isPaused>>

\* the frame loop with the commands that touch isPaused or needsDisplayUpdate
NextFrames ==
    \/ Space /\ UNCHANGED <<commands, call>>
    \/ FrameTick /\ UNCHANGED <<commands, call>>
    \/ KeyC /\ UNCHANGED <<commands, call, isPaused, frames>>
    \/ (\E buf \in Buffers : hashchange(buf)) /\ UNCHANGED <<commands, call, isPaused, frames>>

SpecFrames == Init /\ [][NextFrames]_vars

\* ------------------------------------------------------------------------
\* Functions applied on their own, to arguments drawn from their domains
\* ------------------------------------------------------------------------
\* a function is applied on its own; the program's state stands still
Applied(fn, args, out) ==
    /\ call' = [fn |-> fn, args |-> args, out |-> out]
    /\ UNCHANGED <<progVars, last, tableEntries, displayVars, commands>>

\* generateRings() for nRings = nr and neighborRange = range
CallGenerateRings ==
    /\ call = NoCall
    /\ \E nr \in MIN_N_RINGS .. MAX_N_RINGS, range \in 1 .. MAX_NEIGHBOR_RANGE :
          Applied("generateRings", <<nr, range>>, generateRings(nr, range))

\* cell inertias 0, 0.25, 0.5, 0.75 and 1
Inertias == {(k * InertiaDen) \div 4 : k \in 0 .. 4}

\* the table generateNewRuleset() builds for a rule count, a state count and an inertia
CallGenerateNewRuleset ==
    /\ call = NoCall
    /\ \E ruleCount \in 1 .. MaxRuleCount, ns \in MIN_N_STATES .. MAX_N_STATES,
          inertia \in Inertias, seed \in Seeds :
          Applied("generateNewRuleset", <<ruleCount, ns, inertia, seed>>,
                  NewRules(ruleCount, ns, inertia, seed))

\* byte values with every bit pattern the four 6-bit slices can meet
ByteSamples == {0, 1, 90, 255}

\* every byte sequence of the given length over ByteSamples
BytesOfLength(n) == [1 .. n -> ByteSamples]

\* toBase64url(bytes), and fromBase64url() of the text it returns
CallBase64url ==
    /\ call = NoCall
    /\ \E n \in 0 .. MaxBytes : \E bytes \in BytesOfLength(n) :
       \E text \in {toBase64url(bytes)} :
          Applied("base64url", <<bytes>>, [text |-> text, bytes |-> fromBase64url(text)])

\* generateFurthestSubsequentDistanceArray(length, [0, length - 1]): the grid
\* step is 1, each value is its own grid index
CallFurthestDistance ==
    /\ call = NoCall
    /\ \E length \in 2 .. MAX_N_STATES :
          Applied("generateFurthestSubsequentDistanceArray", <<length, length - 1>>,
                  generateFurthestSubsequentDistanceArray(length, length - 1))

\* nSwaps / nPointMutations of mutateRuleset() for a rule count
CallMutationCount ==
    /\ call = NoCall
    /\ \E ruleCount \in 1 .. MAX_N_RULES :
          Applied("mutationCount", <<ruleCount>>, MutationCount(ruleCount))

\* recalcMinNeighborWeight() for a state count, a ring count, a range and the
\* weight table of a distribution
CallRecalcMinNeighborWeight ==
    /\ call = NoCall
    /\ \E ns \in MIN_N_STATES .. MAX_N_STATES, nr \in MIN_N_RINGS .. MAX_N_RINGS,
          range \in 1 .. MAX_NEIGHBOR_RANGE, idx \in 0 .. (N_WEIGHT_DISTRIBUTIONS - 1),
          seed \in Seeds :
          Applied("recalcMinNeighborWeight", <<ns, nr, range, idx, IF idx = 3 THEN seed ELSE 0>>,
                  recalcMinNeighborWeight(WeightsFor(idx, seed), ns, nr, range))

NextCalls ==
    \/ CallRecalcMinNeighborWeight
    \/ CallGenerateRings
    \/ CallGenerateNewRuleset
    \/ CallBase64url
    \/ CallFurthestDistance
    \/ CallMutationCount

SpecCalls == Init /\ [][NextCalls]_vars

\* ------------------------------------------------------------------------
\* Undo history properties
\* ------------------------------------------------------------------------
\* the commands that start with pushRulesetToHistory() and then write the table
MutatingCommands == {"ArrowRight", "ArrowUp", "ArrowDown"}

\* the snapshot a mutating command took note of before writing
PriorSnapshot(l) == [rules |-> l.priorRules, minNeighborWeight |-> l.priorMin]

\* C1: an undo issued immediately after a mutating command (new ruleset, swap
\* mutation, point mutation) restores the first ruleCount entries of the rule
\* table and minNeighborWeight to the values they had just before that command.
UndoRestoresPriorRuleset ==
    [][(last.cmd \in MutatingCommands /\ last'.cmd = "ArrowLeft")
          => /\ Subarray(rules', Len(last.priorRules)) = last.priorRules
             /\ minNeighborWeight' = last.priorMin]_vars

\* C2: whenever a mutating command has changed the rule table, it pushed the
\* pre-mutation table (and minNeighborWeight) onto the history first; the table
\* is never changed by a command whose push was skipped.
MutationIsPrecededByPush ==
    (last.cmd \in MutatingCommands /\ Subarray(rules, Len(last.priorRules)) # last.priorRules)
        => /\ last.out = "pushed"
           /\ Len(rulesetHistory) > 0
           /\ rulesetHistory[Len(rulesetHistory)] = PriorSnapshot(last)

\* C3: the history never holds more than 128 entries, and a push onto a full
\* history removes exactly the oldest entry and keeps the others in order, the
\* new snapshot becoming the last one.
HistoryKeepsMostRecent ==
    /\ [](Len(rulesetHistory) <= MAX_RULESET_HISTORY)
    /\ [][(last'.cmd \in MutatingCommands /\ Len(rulesetHistory) = MAX_RULESET_HISTORY)
            => rulesetHistory' = Append(Tail(rulesetHistory), PriorSnapshot(last'))]_vars

\* a full history whose oldest entry has been evicted at least once: the
\* start-up table <<1>> was the first snapshot taken, and it is gone
HistoryFullAndEvicted ==
    /\ Len(rulesetHistory) = MAX_RULESET_HISTORY
    /\ last.cmd \in MutatingCommands
    /\ last.out = "pushed"
    /\ rulesetHistory[1].rules # Subarray(StartRules, Len(rulesetHistory[1].rules))

\* C4: undo with an empty history changes nothing: the rule table,
\* minNeighborWeight, the history and the kernel's inputs stay as they were.
UndoOnEmptyHistoryIsNoOp ==
    [][(last'.cmd = "ArrowLeft" /\ Len(rulesetHistory) = 0)
          => UNCHANGED <<rules, minNeighborWeight, rulesetHistory, shader, configVars, ringVars>>]_vars

\* an undo that found the history empty while the table held a generated ruleset
UndoFoundHistoryEmpty ==
    /\ last.cmd = "ArrowLeft"
    /\ last.out = "empty"
    /\ rules # <<>>

\* ------------------------------------------------------------------------
\* State codec properties
\* ------------------------------------------------------------------------
\* the bytes 11..12 of a buffer read as its declared ruleCount
DeclaredRuleCount(buf) == buf[12] + 256 * buf[13]

\* a buffer that must be refused: shorter than the header, of another version,
\* or shorter than the header plus the payload it declares
MustBeRefused(buf) ==
    \/ Len(buf) < 13
    \/ buf[1] # 1
    \/ Len(buf) < 13 + DeclaredRuleCount(buf) + buf[2]

\* C5: restoring from a byte buffer is atomic. A buffer that is too short for
\* its header or its declared payload, or whose version is not 1, is refused
\* and nothing changes; any other buffer is accepted and every field of the
\* aggregate is set from the buffer (configuration scalars, minNeighborWeight,
\* the whole rule table, and the weights of the states below stateCount).
RestoreIsAtomic ==
    [][last'.cmd = "hashchange" =>
          LET buf == last'.buf
          IN IF MustBeRefused(buf)
             THEN /\ last'.out = "rejected"
                  /\ UNCHANGED <<configVars, minNeighborWeight, rules, ringVars,
                                 rulesetHistory, shader>>
             ELSE /\ last'.out = "accepted"
                  /\ nStates' = buf[2]
                  /\ neighborRange' = buf[3]
                  /\ nRings' = buf[4]
                  /\ cellInertia' = buf[5] * (InertiaDen \div 255)
                  /\ isVonNeumann' = (buf[6] % 2 = 1)
                  /\ nextWeightsIdx' = (buf[6] \div 2) % 4
                  /\ currentPaletteId' \in {<<buf[7], buf[8], buf[9]>>, paletteIds[1]}
                  /\ paletteIds[paletteOrderIdx' + 1] = currentPaletteId'
                  /\ minNeighborWeight' = GetInt16LE(buf[10], buf[11])
                  /\ rules' = Trim(SubSeq(buf, 14, 13 + DeclaredRuleCount(buf)))
                  /\ \A i \in 1 .. buf[2] :
                        weights'[i] = buf[13 + DeclaredRuleCount(buf) + i] * WEIGHT_SCALE_DEN]_vars

\* a buffer with a good header but a truncated payload was refused in a state
\* whose stateCount, ring count and minNeighborWeight differ from the header's
TruncatedBufferRefused ==
    /\ last.cmd = "hashchange"
    /\ last.out = "rejected"
    /\ Len(last.buf) >= 13
    /\ last.buf[1] = STATE_VERSION
    /\ nStates # last.buf[2]
    /\ minNeighborWeight # GetInt16LE(last.buf[10], last.buf[11])

EntriesBeyondRuleCountAreZero ==
    \A i \in 1 .. Len(rules) : i > CurrentRuleCount => rules[i] = 0

\* C8: whatever states below stateCount the neighbours hold, the kernel's
\* floor(totalSum) - minNeighborWeight over the current rings, weights and
\* neighbourhood mode lies in [0, ruleCount) before any clamping.
KernelIndexWithinTable ==
    LET least == KernelExtremeSum("min", weights, nStates, nRings, ringInnerRadii,
                                  ringOuterRadii, ringWeights, isVonNeumann)
        greatest == KernelExtremeSum("max", weights, nStates, nRings, ringInnerRadii,
                                     ringOuterRadii, ringWeights, isVonNeumann)
    IN /\ KernelRuleIndex(least, minNeighborWeight) >= 0
       /\ KernelRuleIndex(greatest, minNeighborWeight) < CurrentRuleCount

\* C9: getCurrentRuleCount() equals maxNeighborWeight - minNeighborWeight + 1
\* clamped into [1, MAX_N_RULES], the two extremes being those the bounds
\* analysis computes for the current rings, weights and stateCount.
RuleCountMatchesBounds ==
    LET b == recalcMinNeighborWeight(weights, nStates, nRings, neighborRange)
    IN CurrentRuleCount =
         Min2(Max2(b.maxNeighborWeight - b.minNeighborWeight + 1, 1), MAX_N_RULES)

\* C10: for each current ring and for both neighbourhood modes, the cell count
\* of the bounds analysis equals the number of offsets the kernel sums over.
CellCountMatchesKernel ==
    \A i \in 0 .. (nRings - 1) : \A vonNeumann \in BOOLEAN :
        countCellsInRing(ringInnerRadii[i], ringOuterRadii[i])
            = Cardinality(KernelRingCells(ringInnerRadii[i], ringOuterRadii[i], vonNeumann))

\* ------------------------------------------------------------------------
\* Ring geometry
\* ------------------------------------------------------------------------
\* C11: for every neighborRange in 1..12 and every ring count in 1..8,
\* generateRings() gives each ring 0..ringCount-1 an inner radius that does
\* not exceed its outer radius, and gives ring 0 the inner radius 1
RingsAreOrdered ==
    call.fn = "generateRings" =>
        /\ call.out.inner[0] = 1
        /\ \A i \in 0 .. call.args[1] - 1 : call.out.inner[i] <= call.out.outer[i]

\* more rings than the range has radii: the bare outer radius floor((i+1)*step)
\* of ring 0 is 0, below its inner radius
RingsOutnumberRadii ==
    /\ call.fn = "generateRings"
    /\ call.args = <<MAX_N_RINGS, 1>>
    /\ FloorDiv(1 * 1, MAX_N_RINGS) < call.out.inner[0]
    /\ call.out.outer[0] = 1

\* ------------------------------------------------------------------------
\* Rule table generation and mutation
\* ------------------------------------------------------------------------
\* C12: for every ruleCount >= 1, state count in 2..32 and inertia in [0,1],
\* generateNewRuleset() builds exactly ruleCount entries, each an integer in
\* 0 .. stateCount
GeneratedEntriesInRange ==
    call.fn = "generateNewRuleset" =>
        /\ Len(call.out) = call.args[1]
        /\ \A i \in 1 .. Len(call.out) : call.out[i] \in 0 .. call.args[2]

\* more rules than states and an inertia strictly between 0 and 1: the table
\* holds seeded entries and drawn ones, among them a 0 and the highest state
GeneratedSeededAndDrawn ==
    /\ call.fn = "generateNewRuleset"
    /\ call.args[1] > call.args[2]
    /\ call.args[3] \in 1 .. InertiaDen - 1
    /\ \E i \in 1 .. Len(call.out) : call.out[i] = 0
    /\ Cardinality({i \in 1 .. Len(call.out) : call.out[i] = call.args[2]}) > 1

\* how often the value v occurs in the sequence s
Occurrences(s, v) == Cardinality({i \in 1 .. Len(s) : s[i] = v})

\* C13: a swap mutation keeps the multiset of the values at indices
\* 0 .. ruleCount-1 and leaves every entry from ruleCount on as it was; a point
\* mutation too leaves every entry from ruleCount on as it was
MutationStaysWithinRuleCount ==
    [][last'.cmd \in {"ArrowUp", "ArrowDown"} =>
          \A n \in {CurrentRuleCount} :
          \A before \in {Subarray(rules, n)}, after \in {Subarray(rules', n)} :
             /\ \A i \in n .. Max2(Len(rules), Len(rules')) :
                    RuleAt(rules', i) = RuleAt(rules, i)
             /\ last'.cmd = "ArrowUp" =>
                    \A v \in {before[i] : i \in 1 .. n} \cup {after[i] : i \in 1 .. n} :
                       Occurrences(after, v) = Occurrences(before, v)]_vars

\* a swap mutation has exchanged two different values while the table holds
\* a non-zero entry beyond ruleCount
SwapBelowStaleEntries ==
    /\ last.cmd = "ArrowUp"
    /\ last.out = "pushed"
    /\ Subarray(rules, Len(last.priorRules)) # last.priorRules
    /\ Len(rules) > CurrentRuleCount

\* ------------------------------------------------------------------------
\* Configuration ranges
\* ------------------------------------------------------------------------
\* C14: in every reachable state, also after a restore from an accepted byte
\* buffer, the state count is in 2..32, the neighbour range in 1..12, the
\* ring count in 1..8, the cell inertia in [0,1] and the weight-distribution
\* selector in 0..3
ConfigurationWithinRanges ==
    /\ nStates \in MIN_N_STATES .. MAX_N_STATES
    /\ neighborRange \in 1 .. MAX_NEIGHBOR_RANGE
    /\ nRings \in MIN_N_RINGS .. MAX_N_RINGS
    /\ cellInertia \in 0 .. InertiaDen
    /\ nextWeightsIdx \in 0 .. (N_WEIGHT_DISTRIBUTIONS - 1)

\* ------------------------------------------------------------------------
\* Text form of a byte buffer
\* ------------------------------------------------------------------------
\* C15: for every byte sequence b, of every length, toBase64url(b) uses only
\* characters of the 64-character alphabet and carries no padding (6 bits per
\* character: ceil(8 * length / 6) characters), and fromBase64url of it
\* returns exactly b, the same length and the same bytes
Base64urlRoundTrip ==
    call.fn = "base64url" =>
        /\ \A i \in 1 .. Len(call.out.text) :
               \E k \in 0 .. 63 : B64_CHARS[k] = call.out.text[i]
        /\ Len(call.out.text) = (8 * Len(call.args[1]) + 5) \div 6
        /\ call.out.bytes = call.args[1]

\* ------------------------------------------------------------------------
\* Furthest-subsequent-distance sequence
\* ------------------------------------------------------------------------
\* the distance from the value g to the nearest of the first n values of s
NearestAmong(s, n, g) ==
    CHOOSE d \in 0 .. Abs(g - s[1]) :
        /\ \E i \in 1 .. n : Abs(g - s[i]) = d
        /\ \A i \in 1 .. n : Abs(g - s[i]) >= d

\* C16: for every length 2..32 the function returns exactly `length` values
\* on the grid, the first two being min and max; each later value is as far
\* from all the earlier values as a grid point can be (so none repeats); for
\* length 5 and bounds [0,1] it returns [0, 1, 0.5, 0.25, 0.75] (here in
\* units of the grid step, 1/4)
EachValueIsFurthest ==
    call.fn = "generateFurthestSubsequentDistanceArray" =>
        LET length == call.args[1]
            max == call.args[2]
        IN /\ Len(call.out) = length
           /\ call.out[1] = 0
           /\ call.out[2] = max
           /\ \A i \in 3 .. length :
                  /\ call.out[i] \in 0 .. max
                  /\ \A g \in 0 .. max :
                         NearestAmong(call.out, i - 1, g)
                             <= NearestAmong(call.out, i - 1, call.out[i])
           /\ length = 5 => call.out = <<0, 4, 2, 1, 3>>

\* C17: while the furthest-subsequent-distance selector is active with state
\* count s, the weight of each state k in 0..s-1 is maxWeight * mid_k / (s-1),
\* mid being the sequence built over the index interval (0, s-1)
WeightsFollowStateCount ==
    nextWeightsIdx = 1 =>
        \A k \in 0 .. nStates - 1 :
            weights[k + 1] * (nStates - 1)
                = MAX_WEIGHT * generateFurthestSubsequentDistanceArray(nStates, nStates - 1)[k + 1]

\* ------------------------------------------------------------------------
\* Seeding of a generated table
\* ------------------------------------------------------------------------
\* C18: after generateNewRuleset() has run with an inertia below 1, for every
\* state k in 0 .. stateCount-1 at least one of the first ruleCount entries of
\* the table equals k + 1, whatever the configuration
EveryStateSeeded ==
    (last.cmd = "ArrowRight" /\ cellInertia < InertiaDen) =>
        \A n \in {CurrentRuleCount} :
        \A k \in 0 .. nStates - 1 : \E i \in 0 .. n - 1 : RuleAt(rules, i) = k + 1

\* C18, amended: the same whenever ruleCount is at least the state count
EveryStateSeededGivenRoom ==
    (last.cmd = "ArrowRight" /\ cellInertia < InertiaDen) =>
        \A n \in {CurrentRuleCount} :
            n >= nStates =>
                \A k \in 0 .. nStates - 1 : \E i \in 0 .. n - 1 : RuleAt(rules, i) = k + 1

\* a table generated with an inertia below 1 and more rules than states, the
\* shuffle having moved the seeded entries
SeededEntriesScattered ==
    /\ last.cmd = "ArrowRight"
    /\ cellInertia < InertiaDen
    /\ CurrentRuleCount > nStates
    /\ \E i \in 0 .. nStates - 1 : RuleAt(rules, i) # i + 1

\* ------------------------------------------------------------------------
\* Size of a mutation
\* ------------------------------------------------------------------------
\* C19: for every ruleCount in 1 .. MAX_N_RULES a swap mutation performs
\* exactly max(1, round(ruleCount * 0.1)) swaps and a point mutation
\* reassigns exactly that many indices
MutationCountIsRounded ==
    call.fn = "mutationCount" => call.out = Max2(1, RoundDiv(call.args[1], 10))

\* ------------------------------------------------------------------------
\* Rule count given to the kernel
\* ------------------------------------------------------------------------
\* C20: in every reachable state, from start-up on, the rule count the kernel
\* reads with (u_nRules) does not exceed the number of entries written by the
\* generation, undo or restore that produced the current table; also after
\* the configuration changes that keep the ruleset
KernelRuleCountWithinWritten ==
    shader.u_nRules <= tableEntries

\* C21: after any command, undo and a successful restore from an accepted
\* byte buffer included, the rule count handed to the kernel is at least 1 and
\* at most MAX_N_RULES, so that the clamped kernel index is an index of the
\* rule table
KernelRuleCountClamped ==
    shader.u_nRules \in 1 .. MAX_N_RULES

\* ------------------------------------------------------------------------
\* Encoding a restored aggregate again
\* ------------------------------------------------------------------------
\* packState() of the aggregate that restoring buf leaves: unpackState(buf),
\* then generateRings(), as restoreStateFromUrl does
Repacked(buf) ==
    LET a == unpackState(Aggregate, buf).agg
        g == generateRings(a.nRings, a.neighborRange)
    IN packState(a, getCurrentRuleCount(a.weights, a.nStates, a.nRings, g.inner, g.outer,
                                        g.weight, a.minNeighborWeight))

\* C22: for every reachable aggregate, whatever its weight distribution,
\* encoding it, restoring the buffer and encoding again gives a byte buffer
\* identical to the first
RepackIsIdentical ==
    \A n \in {CurrentRuleCount} :
    \A buf \in {packState(Aggregate, n)} :
        unpackState(Aggregate, buf).ok /\ Repacked(buf) = buf

\* ------------------------------------------------------------------------
\* Frame loop
\* ------------------------------------------------------------------------
\* C23: a frame tick makes at most one kernel step and at most one redraw;
\* the kernel steps only in a tick and only while the simulation is not
\* paused; a redraw happens only in a tick, only when needsDisplayUpdate is
\* set (by an earlier command or by the step of the same tick), and clears it
TickStepsAndDrawsAtMostOnce ==
    [][/\ frames'.ticks = frames.ticks => frames' = frames
       /\ frames'.steps - frames.steps \in {0, 1}
       /\ frames'.draws - frames.draws \in {0, 1}
       /\ frames'.steps # frames.steps => ~isPaused /\ ~isPaused'
       /\ frames'.draws # frames.draws =>
              /\ needsDisplayUpdate \/ frames'.steps # frames.steps
              /\ ~needsDisplayUpdate']_vars

\* paused after one stepping frame; a later frame redrew without stepping
\* (the palette had changed) and a frame after that did neither
PausedFramesHaveRun ==
    /\ isPaused
    /\ ~needsDisplayUpdate
    /\ frames.steps >= 1
    /\ frames.draws > frames.steps
    /\ frames.ticks > frames.draws

\* ------------------------------------------------------------------------
\* Rule table against the configuration
\* ------------------------------------------------------------------------
\* C24: in every reachable state each non-zero entry n among the first
\* ruleCount entries of the rule table names an existing state: n - 1 is
\* below the state count
EntriesNameExistingStates ==
    \A n \in {CurrentRuleCount} :
    \A i \in 0 .. n - 1 : RuleAt(rules, i) # 0 => RuleAt(rules, i) - 1 < nStates

\* C25: once the shaders exist, after start-up and after every command, the
\* kernel's inputs equal the aggregate: u_minNeighborWeight is
\* minNeighborWeight, u_nRules is the current rule count, and the weight,
\* ring-geometry, ring-count and neighbourhood-mode uniforms equal the values
\* they are taken from
UniformsMatchAggregate ==
    /\ shader.u_minNeighborWeight = minNeighborWeight
    /\ shader.u_nRules = CurrentRuleCount
    /\ shader.u_weights = weights
    /\ shader.u_ringInner = ringInnerRadii
    /\ shader.u_ringOuter = ringOuterRadii
    /\ shader.u_ringWeights = ringWeights
    /\ shader.u_nRings = nRings
    /\ shader.u_maxNeighborRange = neighborRange
    /\ shader.u_vonNeumann = (IF isVonNeumann THEN 1 ELSE 0)

\* ------------------------------------------------------------------------
\* Capacity of the rule table
\* ------------------------------------------------------------------------
\* C26: for every state count in 2..32, range in 1..12, ring count in 1..8
\* and each of the four weight distributions, the bounds analysis computes a
\* rule count in 1 .. MAX_N_RULES, so the capacity warning is not raised
AnalysisWithinCapacity ==
    call.fn = "recalcMinNeighborWeight" =>
        /\ RulesNeededByBounds(call.out) \in 1 .. MAX_N_RULES
        /\ ~CapacityExceeded(call.out)

\* the analysis has run on the widest neighbourhood with a negative ring and
\* needs hundreds of rules, the lower bound being below zero
WideNeighbourhoodAnalysed ==
    /\ call.fn = "recalcMinNeighborWeight"
    /\ call.args[2] >= 2
    /\ call.args[3] = MAX_NEIGHBOR_RANGE
    /\ call.out.minNeighborWeight < 0
    /\ RulesNeededByBounds(call.out) >= 300

====
